---------------------------- MODULE Spec2Model ----------------------------
(***************************************************************************)
(* The processor execution runtime of LLMStack:                            *)
(*   ApiProcessorInterface (api_processor_interface.py): construction and  *)
(*   input(message), i.e. resolve input/config, process(), error payload,  *)
(*   bookkeeping record, session save, bookkeep, on_stop;                  *)
(*   StaticWebBrowser.process (static_web_browser.py): the browser         *)
(*   processor's execute step.                                             *)
(* One actor, invocations one at a time.  A second processor kind, "stub", *)
(* stands for any other concrete processor: it overrides process() and the *)
(* optional hooks (get_bookkeeping_data, session_data_to_persist,          *)
(* usage_data); the browser processor inherits the base-class hooks.       *)
(* Spec is the actor under every mode and message; SpecCmd the same actor  *)
(* given instruction lists; SpecCache the memoized get_provider_config of  *)
(* several actor objects.                                                  *)
(***************************************************************************)
EXTENDS Integers, Sequences, FiniteSets, TLC

VARIABLES
    pc,                 \* position of the actor: new, idle, inside input(), raised
    _is_tool,           \* constructor argument is_tool
    _input_fields,      \* len(input_fields) given to the constructor
    _session_enabled,   \* constructor argument session_enabled
    kind,               \* the concrete processor class: "browser" or "stub"
    _input_template,    \* template form of the input
    _config_template,   \* template form of the config
    _input,             \* resolved input
    _config,            \* resolved config
    message,            \* argument of the input() call in progress
    output,             \* local `output` of input()
    bookkeeping_data,   \* local `bookkeeping_data` of input()
    browser_response,   \* local `browser_response` of StaticWebBrowser.process
    stream,             \* calls made on self._output_stream in this invocation
    store,              \* session store: mapping kept for (session_id, actor id)
    hist,               \* observations: counters and snapshots of calls made
    actors,             \* every actor object: unborn, alive or released
    cache,              \* the table of functools.cache on get_provider_config
    resolver_calls,     \* calls of get_matched_provider_config, per actor and tuple
    first,              \* what the first lookup of a tuple returned to an actor
    last                \* the get_provider_config call that returned last

vars == << pc, _is_tool, _input_fields, _session_enabled, kind, _input_template,
           _config_template, _input, _config, message, output, bookkeeping_data,
           browser_response, stream, store, hist,
           actors, cache, resolver_calls, first, last >>

\* the state of the provider-config lookups
lookups == << actors, cache, resolver_calls, first, last >>

---------------------------------------------------------------------------
(* Bounds of the model *)

\* number of input() calls made on the actor
MaxCalls == 2

---------------------------------------------------------------------------
(* Values *)

\* a Python dict with no keys
EmptyMap == [k \in {} |-> ""]

\* Python None, where a record is expected
None == [kind |-> "none"]

\* a pydantic model instance with fields f (BaseModel)
Model(f) == [kind |-> "model", f |-> f]

\* a plain dict with items f
Dict(f) == [kind |-> "dict", f |-> f]

\* a value that is neither a BaseModel nor a dict (a non-empty string, say)
Other == [kind |-> "other"]

\* BaseModel.model_dump(): the dict of a model's fields
model_dump(v) == Dict(v.f)

\* isinstance(v, BaseModel)
IsBaseModel(v) == v.kind = "model"

\* Python truthiness of a value: None and the empty dict are falsy, a model
\* instance is always truthy
Truthy(v) ==
    CASE v.kind = "none"  -> FALSE
      [] v.kind = "dict"  -> DOMAIN v.f # {}
      [] OTHER            -> TRUE

\* the messages input() is called with: None, {}, and keyword mappings
NoneMsg == [none |-> TRUE, kw |-> EmptyMap]

Msg(kw) == [none |-> FALSE, kw |-> kw]

Messages ==
    { NoneMsg,
      Msg(EmptyMap),
      Msg([url |-> "u1", instructions |-> <<>>]),
      Msg([url |-> "u1", instructions |-> <<>>, q |-> "c1"]),
      Msg([q |-> "c9"]) }

\* `if message`: None and {} are falsy
MsgTruthy(m) == ~m.none /\ DOMAIN m.kw # {}

\* template strings: a literal, a placeholder, a malformed template
InputUrlTemplates == { "u0", "{{q}}" }

ConnectionTemplates == { "", "{{q}}", "{%bad" }

\* env["connections"]: the connection ids configured in the environment
Connections == { "c1" }

\* contents the session store may hold for the actor's slot before construction
StoredSessions == { EmptyMap, [k |-> "old"] }

\* what an overriding session_data_to_persist() returns
PersistVals == { [k |-> "new"] }

---------------------------------------------------------------------------
(* Template hydration and schema validation *)

Lookup(kw, k) == IF k \in DOMAIN kw THEN kw[k] ELSE ""

\* rendering of one template string against the message's keys: the
\* placeholder is replaced by the value of its key, "" when the key is missing
Render(s, kw) ==
    CASE s = "{{q}}" -> Lookup(kw, "q")
      [] OTHER       -> s

\* the string fields of input and config that may hold template syntax
TemplatedFields == { "url", "connection_id" }

\* hydrate_input(template, message): [err, val]; err = "" on success
hydrate_input(template, m) ==
    IF m.none
    THEN [err |-> "hydration: no context", val |-> None]
    ELSE IF \E k \in DOMAIN template.f \cap TemplatedFields : template.f[k] = "{%bad"
    THEN [err |-> "hydration: template syntax", val |-> None]
    ELSE [err |-> "",
          val |-> Model([k \in DOMAIN template.f |->
                           IF k \in TemplatedFields
                           THEN Render(template.f[k], m.kw)
                           ELSE template.f[k]])]

\* StaticWebBrowserInput(**kw): url and instructions are required fields
InputClass(kw) ==
    IF {"url", "instructions"} \subseteq DOMAIN kw
    THEN [err |-> "",
          val |-> Model([url |-> kw.url, instructions |-> kw.instructions])]
    ELSE [err |-> "validation: field required", val |-> None]

\* the input schema another processor declares: the same two required
\* fields, and a url that may not be empty
StubInputClass(kw) ==
    IF ~({"url", "instructions"} \subseteq DOMAIN kw)
    THEN [err |-> "validation: field required", val |-> None]
    ELSE IF kw.url = ""
    THEN [err |-> "validation: string too short", val |-> None]
    ELSE [err |-> "",
          val |-> Model([url |-> kw.url, instructions |-> kw.instructions])]

\* self._get_input_class()(**kw)
_get_input_class(kw) ==
    IF kind = "browser" THEN InputClass(kw) ELSE StubInputClass(kw)

\* outcome of the first statements of input(): the new self._input and
\* self._config, the message of the exception raised ("" when none), and the
\* number of hydrate_input calls made; a counts the assignments executed
\* before the raise: 0 none, 1 self._input only, 2 self._input and self._config
Resolved(i, c, e, n, a) ==
    [input |-> i, config |-> c, err |-> e, hydrations |-> n, assigned |-> a]

\* variant of ResolveToolVerbatim: the input is hydrated from the template
\* as in the mode with declared fields
ResolveToolVerbatim_Hydrates(m) ==
    LET h == hydrate_input(_input_template, m) IN
    IF h.err # "" THEN Resolved(_input, _config, h.err, 1, 0)
    ELSE LET c == hydrate_input(_config_template, m) IN
         IF c.err # "" THEN Resolved(h.val, _config, c.err, 2, 1)
         ELSE Resolved(h.val, c.val, "", 2, 2)

\* tool mode, no declared input fields (lines 327-329)
ResolveToolVerbatim(m) ==
    IF m.none
    THEN Resolved(_input, _config, "type: argument after ** must be a mapping", 0, 0)
    ELSE LET v == _get_input_class(m.kw) IN
         IF v.err # "" THEN Resolved(_input, _config, v.err, 0, 0)
         ELSE LET c == hydrate_input(_config_template, m) IN
              IF c.err # "" THEN Resolved(v.val, _config, c.err, 1, 1)
              ELSE Resolved(v.val, c.val, "", 1, 2)

\* variant of ResolveToolFields: the hydrated input is used as it is
ResolveToolFields_NoValidation(m) ==
    LET h == hydrate_input(_input_template, m) IN
    IF h.err # "" THEN Resolved(_input, _config, h.err, 1, 0)
    ELSE LET c == hydrate_input(_config_template, m) IN
         IF c.err # "" THEN Resolved(h.val, _config, c.err, 2, 1)
         ELSE Resolved(h.val, c.val, "", 2, 2)

\* tool mode, declared input fields (lines 330-335)
ResolveToolFields(m) ==
    LET h == hydrate_input(_input_template, m) IN
    IF h.err # "" THEN Resolved(_input, _config, h.err, 1, 0)
    ELSE LET v == _get_input_class(IF IsBaseModel(h.val) THEN model_dump(h.val).f ELSE h.val.f) IN
         IF v.err # "" THEN Resolved(_input, _config, v.err, 1, 0)
         ELSE LET c == hydrate_input(_config_template, m) IN
              IF c.err # "" THEN Resolved(v.val, _config, c.err, 2, 1)
              ELSE Resolved(v.val, c.val, "", 2, 2)

\* variant of ResolveNormal: without a message the resolved forms of the
\* previous invocation are kept
ResolveNormal_KeepsResolved(m) ==
    LET h  == IF MsgTruthy(m) THEN hydrate_input(_input_template, m)
              ELSE [err |-> "", val |-> _input]
        n1 == IF MsgTruthy(m) THEN 1 ELSE 0
    IN
    IF h.err # "" THEN Resolved(_input, _config, h.err, n1, 0)
    ELSE LET hc == Truthy(_config) /\ MsgTruthy(m)
             c  == IF hc THEN hydrate_input(_config_template, m)
                   ELSE [err |-> "", val |-> _config]
             n2 == IF hc THEN n1 + 1 ELSE n1
         IN
         IF c.err # "" THEN Resolved(h.val, _config, c.err, n2, 1)
         ELSE Resolved(h.val, c.val, "", n2, 2)

\* normal mode (lines 336-352)
ResolveNormal(m) ==
    LET h  == IF MsgTruthy(m) THEN hydrate_input(_input_template, m)
              ELSE [err |-> "", val |-> _input_template]
        n1 == IF MsgTruthy(m) THEN 1 ELSE 0
    IN
    IF h.err # "" THEN Resolved(_input, _config, h.err, n1, 0)
    ELSE LET hc == Truthy(_config) /\ MsgTruthy(m)
             c  == IF hc THEN hydrate_input(_config_template, m)
                   ELSE [err |-> "", val |-> _config_template]
             n2 == IF hc THEN n1 + 1 ELSE n1
         IN
         IF c.err # "" THEN Resolved(h.val, _config, c.err, n2, 1)
         ELSE Resolved(h.val, c.val, "", n2, 2)

\* the mode is selected by is_tool and len(input_fields)
Resolve(m) ==
    IF _is_tool /\ _input_fields = 0 THEN ResolveToolVerbatim(m)
    ELSE IF _is_tool THEN ResolveToolFields(m)
    ELSE ResolveNormal(m)

---------------------------------------------------------------------------
(* Output stream, error payload, observations *)

\* one call on self._output_stream
Event(op, v) == [op |-> op, v |-> v]

\* the positions of the stream holding a call of kind op
Positions(op) == { i \in 1..Len(stream) : stream[i].op = op }

\* variant of ErrorPayload: the status code of a server error
ErrorPayload_Status500(m) ==
    Dict([errors |-> << m >>,
          raw_response |-> [text |-> m, status_code |-> 500]])

\* the output synthesized by the except clause of input() (lines 356-362)
ErrorPayload(m) ==
    Dict([errors |-> << m >>,
          raw_response |-> [text |-> m, status_code |-> 400]])

\* observations reset at the start of every input() call; kept across calls
\* are whether process() raised in the call before, and whether the resolved
\* forms the call starts with were assigned by an earlier call
NewCall(h) ==
    [h EXCEPT !.calls = @ + 1, !.hydrations = 0, !.executes = 0,
              !.persist = << >>, !.saves = << >>, !.save_failed = FALSE,
              !.caught = << >>, !.returned = << >>, !.on_stop = 0,
              !.supplied = FALSE, !.result = "running",
              !.entry = [input |-> _input, config |-> _config],
              !.after_failure = h.caught # << >> /\ h.caught[1].at = "process",
              !.stale_input = h.stale_input \/ h.assigned >= 1,
              !.stale_config = h.stale_config \/ h.assigned = 2,
              !.assigned = 0, !.commands = << >>, !.wss_url = FALSE]

---------------------------------------------------------------------------
(* Construction: ApiProcessorInterface.__init__ *)

\* the actor objects that may be created in the process
Actors == { "a1", "a2" }

\* what get_matched_provider_config may return: the provider_configs of env
\* can change between two lookups
ProviderConfigs == { "cfg1", "cfg2" }

\* the ways get_provider_config is called: positional and keyword arguments
Calls ==
    { [args |-> << "m1" >>, kwds |-> << >>],
      [args |-> << >>, kwds |-> << << "model_slug", "m1" >> >>],
      [args |-> << "m2" >>, kwds |-> << >>] }

\* the model_slug parameter bound by a call (line 259); the other three
\* parameters keep their defaults
model_slug(call) ==
    IF call.args # << >> THEN call.args[1] ELSE call.kwds[1][2]

ModelSlugs == { model_slug(call) : call \in Calls }

\* no actor created, nothing looked up
NoLookups ==
    /\ actors = [a \in Actors |-> "unborn"]
    /\ cache = {}
    /\ resolver_calls = [a \in Actors |-> [m \in ModelSlugs |-> 0]]
    /\ first = [a \in Actors |-> [m \in ModelSlugs |-> "none"]]
    /\ last = None

\* the observations before the constructor has run
NoCalls(st) ==
    [calls |-> 0, loads |-> 0, psd |-> << >>, hydrations |-> 0,
     executes |-> 0, persist |-> << >>, saves |-> << >>,
     save_failed |-> FALSE, caught |-> << >>, returned |-> << >>,
     on_stop |-> 0, supplied |-> FALSE, result |-> "none",
     entry |-> [input |-> _input_template, config |-> _config_template],
     store0 |-> st, after_failure |-> FALSE, assigned |-> 0,
     stale_input |-> FALSE, stale_config |-> FALSE,
     commands |-> << >>, wss_url |-> FALSE]

Init ==
    /\ pc = "new"
    /\ _is_tool \in BOOLEAN
    /\ _input_fields \in IF _is_tool THEN {0, 1} ELSE {0}
    /\ _session_enabled \in BOOLEAN
    /\ kind \in { "browser", "stub" }
    /\ \E u \in InputUrlTemplates :
          _input_template = Model([url |-> u, instructions |-> << >>])
    /\ \E c \in ConnectionTemplates, sv \in BOOLEAN :
          _config_template = Model([connection_id |-> c, stream_video |-> sv])
    /\ _input = _input_template
    /\ _config = _config_template
    /\ message = NoneMsg
    /\ output = None
    /\ bookkeeping_data = None
    /\ browser_response = None
    /\ stream = << >>
    /\ store \in StoredSessions
    /\ hist = NoCalls(store)
    /\ NoLookups

\* get_app_session_data(session_id, id): what the load may return, the
\* mapping stored for the slot, or nothing when the slot holds none
get_app_session_data ==
    IF store = EmptyMap THEN { None, EmptyMap } ELSE { store }

\* lines 170-186: templates and resolved forms are built from the same
\* arguments; the session data is loaded, and `session_data or {}` handed to
\* process_session_data when the actor is session-enabled.  The load is not
\* inside a try: when the session store raises, __init__ raises and no actor
\* is constructed.
Construct ==
    /\ pc = "new"
    /\ _config' = _config_template
    /\ _input' = _input_template
    /\ \/ /\ hist' = [hist EXCEPT !.loads = @ + 1]
          /\ pc' = "failed"
       \/ \E session_data \in get_app_session_data :
            /\ hist' = [hist EXCEPT
                          !.loads = @ + 1,
                          !.psd = IF _session_enabled
                                  THEN Append(@, IF session_data \in { None, EmptyMap }
                                                 THEN EmptyMap
                                                 ELSE session_data)
                                  ELSE @]
            /\ pc' = "idle"
    /\ UNCHANGED << lookups, _is_tool, _input_fields, _session_enabled, kind,
                    _input_template, _config_template, message, output,
                    bookkeeping_data, browser_response, stream, store >>

---------------------------------------------------------------------------
(* input(message): resolution of input and config, lines 325-352 *)

params == << _is_tool, _input_fields, _session_enabled, kind,
             _input_template, _config_template >>

\* variant of Except: after a first exception of process() it is called again
Except_Retries(m, at, h, st) ==
    IF at = "process" /\ h.executes < 2
    THEN /\ output' = output
         /\ stream' = st
         /\ hist' = h
         /\ pc' = "process"
    ELSE /\ output' = ErrorPayload(m)
         /\ stream' = Append(st, Event("error", m))
         /\ hist' = [h EXCEPT !.caught = Append(@, [m |-> m, at |-> at])]
         /\ pc' = "bookkeeping"

\* variant of Except: the exception ends the actor, no step of input() follows
Except_StopsActor(m, at, h, st) ==
    /\ output' = output
    /\ stream' = Append(st, Event("error", m))
    /\ hist' = [h EXCEPT !.caught = Append(@, [m |-> m, at |-> at]),
                         !.result = "raised"]
    /\ pc' = "stopped"

\* the except clause (lines 354-365): the error payload becomes the output
\* and the error is sent to the output stream; h is the observation record
\* and st the stream as the failing step leaves it
Except(m, at, h, st) ==
    /\ output' = ErrorPayload(m)
    /\ stream' = Append(st, Event("error", m))
    /\ hist' = [h EXCEPT !.caught = Append(@, [m |-> m, at |-> at])]
    /\ pc' = "bookkeeping"

\* variant of Input: the hydrated input is stored back as the input template
Input_StoresTemplate(m) ==
    /\ pc = "idle"
    /\ hist.calls < MaxCalls
    /\ message' = m
    /\ LET r == Resolve(m)
           h == [NewCall(hist) EXCEPT !.hydrations = r.hydrations,
                                      !.assigned = r.assigned]
       IN
       /\ _input' = r.input
       /\ _config' = r.config
       /\ _input_template' = r.input
       /\ bookkeeping_data' = None
       /\ browser_response' = None
       /\ IF r.err = ""
          THEN /\ pc' = "process"
               /\ output' = None
               /\ stream' = << >>
               /\ hist' = h
          ELSE Except(r.err, "resolve", h, << >>)
    /\ UNCHANGED << lookups, _is_tool, _input_fields, _session_enabled, kind,
                    _config_template, store >>

\* input(message), lines 325-353: the resolved forms are replaced from the
\* message; process() follows unless resolution raised
Input(m) ==
    /\ pc = "idle"
    /\ hist.calls < MaxCalls
    /\ message' = m
    /\ LET r == Resolve(m)
           h == [NewCall(hist) EXCEPT !.hydrations = r.hydrations,
                                      !.assigned = r.assigned]
       IN
       /\ _input' = r.input
       /\ _config' = r.config
       /\ bookkeeping_data' = None
       /\ browser_response' = None
       /\ IF r.err = ""
          THEN /\ pc' = "process"
               /\ output' = None
               /\ stream' = << >>
               /\ hist' = h
          ELSE Except(r.err, "resolve", h, << >>)
    /\ UNCHANGED << lookups, params, store >>

---------------------------------------------------------------------------
(* StaticWebBrowser.process, lines 196-270 *)

\* what the remote session answers: nothing, or a response with the page
\* text, the bytes of a screenshot ("" when none was taken) and the files
\* downloaded, each with the bytes of its data
RawFile(n) == [url |-> "d1", file |-> [name |-> n, data |-> "file-bytes"]]

BrowserResponses ==
    { None,
      Model([text |-> "page", screenshot |-> "", downloads |-> << >>]),
      Model([text |-> "page", screenshot |-> "png-bytes", downloads |-> << >>]),
      Model([text |-> "page", screenshot |-> "", downloads |-> << RawFile("f1") >>]),
      Model([text |-> "page", screenshot |-> "png-bytes",
             downloads |-> << RawFile("f1"), RawFile("f2") >>]) }

\* the live session handle written when video is streamed (lines 216-220)
SessionHandle == Model([session |-> "wss"])

\* the final output written by the browser processor (line 266)
FinalOutput(text, screenshot, downloads) ==
    Model([text |-> text,
           content |-> [screenshot |-> screenshot, downloads |-> downloads]])

\* output_stream.finalize(): closes the stream and returns the last known
\* full output, None when nothing was written
finalize ==
    LET w == Positions("write") IN
    IF w = {} THEN None
    ELSE stream[CHOOSE i \in w : \A j \in w : j <= i].v

\* an optional string: None or a string
Str(s) == [kind |-> "str", s |-> s]

\* BrowserInstructionType (lines 29-38): the values of the enumeration
BrowserInstructionType ==
    { "Click", "Type", "Wait", "Goto", "Copy", "Terminate", "Enter",
      "Scrollx", "Scrolly" }

\* str.lower() and str.capitalize() on the values met here
lower(v) ==
    CASE v = "Click" -> "click"         [] v = "Type" -> "type"
      [] v = "Wait" -> "wait"           [] v = "Goto" -> "goto"
      [] v = "Copy" -> "copy"           [] v = "Terminate" -> "terminate"
      [] v = "Enter" -> "enter"         [] v = "Scrollx" -> "scrollx"
      [] v = "Scrolly" -> "scrolly"     [] OTHER -> v

capitalize(v) ==
    CASE v = "click" -> "Click"         [] v = "type" -> "Type"
      [] v = "wait" -> "Wait"           [] v = "goto" -> "Goto"
      [] v = "copy" -> "Copy"           [] v = "terminate" -> "Terminate"
      [] v = "enter" -> "Enter"         [] v = "scrollx" -> "Scrollx"
      [] v = "scrolly" -> "Scrolly"     [] OTHER -> v

\* BrowserInstruction.validate_type (lines 46-48)
validate_type(v) == capitalize(lower(v))

\* BrowserInstruction(type=..., selector=..., data=...) (lines 41-48)
BrowserInstruction(type, selector, data) ==
    [type |-> validate_type(type), selector |-> selector, data |-> data]

\* `v or ""` for an optional string
OrEmpty(v) == IF v.kind = "none" THEN "" ELSE v.s

\* WebBrowserCommand(command_type=..., data=..., selector=...)
WebBrowserCommand(command_type, data, selector) ==
    [command_type |-> command_type, data |-> data, selector |-> selector]

\* variant of _web_browser_instruction_to_command: the chain has no branch
\* for Type, whose instruction type is passed on as it is
_web_browser_instruction_to_command_NoType(instruction) ==
    LET instruction_type ==
            CASE instruction.type = "Goto"      -> "GOTO"
              [] instruction.type = "Click"     -> "CLICK"
              [] instruction.type = "Wait"      -> "WAIT"
              [] instruction.type = "Copy"      -> "COPY"
              [] instruction.type = "Scrollx"   -> "SCROLL_X"
              [] instruction.type = "Scrolly"   -> "SCROLL_Y"
              [] instruction.type = "Terminate" -> "TERMINATE"
              [] instruction.type = "Enter"     -> "ENTER"
              [] OTHER                          -> instruction.type
    IN WebBrowserCommand(instruction_type, OrEmpty(instruction.data),
                         OrEmpty(instruction.selector))

\* _web_browser_instruction_to_command (lines 171-194): the if/elif chain
\* over the instruction type; a type met by no branch is passed on as it is
_web_browser_instruction_to_command(instruction) ==
    LET instruction_type ==
            CASE instruction.type = "Goto"      -> "GOTO"
              [] instruction.type = "Click"     -> "CLICK"
              [] instruction.type = "Wait"      -> "WAIT"
              [] instruction.type = "Copy"      -> "COPY"
              [] instruction.type = "Scrollx"   -> "SCROLL_X"
              [] instruction.type = "Scrolly"   -> "SCROLL_Y"
              [] instruction.type = "Terminate" -> "TERMINATE"
              [] instruction.type = "Enter"     -> "ENTER"
              [] instruction.type = "Type"      -> "TYPE"
              [] OTHER                          -> instruction.type
    IN WebBrowserCommand(instruction_type, OrEmpty(instruction.data),
                         OrEmpty(instruction.selector))

\* the argument of run_commands (lines 224-230): a GOTO of the input url,
\* then the command of every instruction, in order
Commands ==
    << WebBrowserCommand("GOTO", _input.f.url, "") >>
    \o [i \in 1..Len(_input.f.instructions) |->
           _web_browser_instruction_to_command(_input.f.instructions[i])]

\* lines 200-221: the session is opened (the connection's storage state is
\* looked up in env when a connection id is configured) and, with video
\* streaming on and a session URL available, the session handle is written
ProcOpen ==
    /\ pc = "process"
    /\ kind = "browser"
    /\ LET h == [hist EXCEPT !.executes = @ + 1]
           c == _config.f.connection_id
       IN
       IF c # "" /\ c \notin Connections
       THEN Except("key error: connection", "process", h, stream)
       ELSE \E opened \in BOOLEAN, wss_url \in BOOLEAN :
              IF ~opened
              THEN Except("connection refused", "process", h, stream)
              ELSE /\ stream' = IF _config.f.stream_video /\ wss_url
                                THEN Append(stream, Event("write", SessionHandle))
                                ELSE stream
                   /\ hist' = [h EXCEPT !.wss_url = _config.f.stream_video /\ wss_url]
                   /\ pc' = "run_commands"
                   /\ UNCHANGED output
    /\ UNCHANGED << lookups, params, _input, _config, message, bookkeeping_data,
                    browser_response, store >>

\* lines 223-231: the commands are sent to the remote session, which answers
\* with a response or fails; the observation keeps the list sent and the
\* number of stream calls made before it
ProcRun ==
    /\ pc = "run_commands"
    /\ LET h == [hist EXCEPT !.commands =
                      Append(@, [list |-> Commands, after |-> Len(stream)])]
       IN
       \/ /\ Except("connection refused", "process", h, stream)
          /\ UNCHANGED browser_response
       \/ /\ browser_response' \in BrowserResponses
          /\ pc' = "emit"
          /\ hist' = h
          /\ UNCHANGED << output, stream >>
    /\ UNCHANGED << lookups, params, _input, _config, message, bookkeeping_data, store >>

\* the data URI built from bytes (lines 242, 251)
DataUri(bytes) == [kind |-> "data_uri", bytes |-> bytes]

\* the reference of an asset held by the asset store
ObjRef == [kind |-> "objref", id |-> "asset"]

\* variant of upload_asset_from_url: when the asset store fails the data URI
\* is handed back as the reference of the asset
upload_asset_from_url_InlineRef(data_uri, stored) ==
    IF stored
    THEN [kind |-> "asset", objref |-> ObjRef]
    ELSE [kind |-> "asset", objref |-> data_uri]

\* _upload_asset_from_url (lines 93-122): the asset created from the data
\* URI, or, when the asset store fails, the data URI it was given
upload_asset_from_url(data_uri, stored) ==
    IF stored
    THEN [kind |-> "asset", objref |-> ObjRef]
    ELSE data_uri

\* lines 232-266: the screenshot and the data of every downloaded file are
\* uploaded and the final output, holding their references, is written; an
\* upload that handed back the data URI has no objref, and reading it raises
ProcEmit ==
    /\ pc = "emit"
    /\ IF ~Truthy(browser_response)
       THEN /\ pc' = "finalize"
            /\ UNCHANGED << output, stream, hist >>
       ELSE LET downloads == browser_response.f.downloads IN
            \E stored \in [0..Len(downloads) -> BOOLEAN] :
              LET screenshot_asset ==
                      IF browser_response.f.screenshot # ""
                      THEN upload_asset_from_url(
                               DataUri(browser_response.f.screenshot), stored[0])
                      ELSE None
                  file_data == [i \in 1..Len(downloads) |->
                                   upload_asset_from_url(
                                       DataUri(downloads[i].file.data), stored[i])]
                  swb_downloads == [i \in 1..Len(downloads) |->
                                       [url |-> downloads[i].url,
                                        file |-> [name |-> downloads[i].file.name,
                                                  data |-> file_data[i].objref]]]
              IN
              IF \/ screenshot_asset.kind = "data_uri"
                 \/ \E i \in 1..Len(downloads) : file_data[i].kind = "data_uri"
              THEN Except("attribute error: 'str' object has no attribute 'objref'",
                          "process", hist, stream)
              ELSE /\ stream' = Append(stream,
                          Event("write",
                                FinalOutput(browser_response.f.text,
                                            IF Truthy(screenshot_asset)
                                            THEN screenshot_asset.objref
                                            ELSE None,
                                            swb_downloads)))
                   /\ pc' = "finalize"
                   /\ UNCHANGED << output, hist >>
    /\ UNCHANGED << lookups, params, _input, _config, message, bookkeeping_data,
                    browser_response, store >>

\* variant of ProcFinalize: a statement after finalize() raises
ProcFinalize_RaisesAfter ==
    /\ pc = "finalize"
    /\ Except("execution failed", "process", hist,
              Append(stream, Event("finalize", None)))
    /\ UNCHANGED << lookups, params, _input, _config, message, bookkeeping_data,
                    browser_response, store >>

\* lines 268-270: the stream is finalized and its output returned to input()
ProcFinalize ==
    /\ pc = "finalize"
    /\ output' = finalize
    /\ stream' = Append(stream, Event("finalize", None))
    /\ hist' = [hist EXCEPT !.returned = Append(@, finalize)]
    /\ pc' = "bookkeeping"
    /\ UNCHANGED << lookups, params, _input, _config, message, bookkeeping_data,
                    browser_response, store >>

---------------------------------------------------------------------------
(* process() of any other concrete processor (line 275, overridden) *)

\* what an overriding process() may return: a structured output record, a
\* plain mapping, None, or a value of another shape
ProcessReturns ==
    { Model([text |-> "ok"]), Dict([text |-> "ok"]), None, Other }

ProcStub ==
    /\ pc = "process"
    /\ kind = "stub"
    /\ \E partial \in BOOLEAN :
         LET h  == [hist EXCEPT !.executes = @ + 1]
             st == IF partial
                   THEN Append(stream, Event("write", Model([text |-> "partial"])))
                   ELSE stream
         IN
         \/ Except("execution failed", "process", h, st)
         \/ \E v \in ProcessReturns :
              /\ output' = v
              /\ stream' = st
              /\ hist' = [h EXCEPT !.returned = Append(@, v)]
              /\ pc' = "bookkeeping"
    /\ UNCHANGED << lookups, params, _input, _config, message, bookkeeping_data,
                    browser_response, store >>

---------------------------------------------------------------------------
(* input(message): bookkeeping, lines 367-395 *)

\* the records an overriding get_bookkeeping_data() may supply
CustomRecords ==
    { Model([input |-> Dict([url |-> "custom"]),
             config |-> Dict(EmptyMap),
             output |-> Dict([text |-> "custom"]),
             session_data |-> [k |-> "custom"],
             timestamp |-> 0,
             disable_history |-> TRUE,
             usage_data |-> None]) }

\* lines 368-374: the dict forms of the resolved input, config and output
input_dict == IF Truthy(_input) /\ IsBaseModel(_input) THEN model_dump(_input) ELSE _input

config_dict == IF Truthy(_config) /\ IsBaseModel(_config) THEN model_dump(_config) ELSE _config

output_dict ==
    IF Truthy(output)
    THEN IF IsBaseModel(output) THEN model_dump(output) ELSE output
    ELSE Dict(EmptyMap)

\* variant of DefaultRecord: the session delta is not passed on
DefaultRecord_NoSessionData(session_data) ==
    Model([input |-> input_dict,
           config |-> config_dict,
           output |-> output_dict,
           session_data |-> EmptyMap,
           timestamp |-> hist.calls,
           disable_history |-> FALSE,
           usage_data |-> None])

\* lines 377-384: the default record
DefaultRecord(session_data) ==
    Model([input |-> input_dict,
           config |-> config_dict,
           output |-> output_dict,
           session_data |-> session_data,
           timestamp |-> hist.calls,
           disable_history |-> FALSE,
           usage_data |-> None])

\* usage_data() of the base class (lines 283-284)
usage_data == [credits |-> 1000, usage_metrics |-> << "promptly/*/*/*" >>]

\* an exception raised after the try statement leaves input()
Propagate(h) ==
    /\ hist' = [h EXCEPT !.result = "raised"]
    /\ pc' = "idle"

\* line 367: the hook of the base class returns None; an overriding hook
\* returns None or a record of its own, or raises
GetBookkeepingData ==
    /\ pc = "bookkeeping"
    /\ \/ /\ bookkeeping_data' = None
          /\ pc' = "build"
          /\ UNCHANGED hist
       \/ /\ kind = "stub"
          /\ bookkeeping_data' \in CustomRecords
          /\ pc' = "build"
          /\ hist' = [hist EXCEPT !.supplied = TRUE]
       \/ /\ kind = "stub"
          /\ Propagate(hist)
          /\ UNCHANGED bookkeeping_data
    /\ UNCHANGED << lookups, params, _input, _config, message, output, browser_response,
                    stream, store >>

\* lines 376-384: without a record from the hook the default record is built;
\* its session_data is what session_data_to_persist() returns (the base class
\* returns {}) when the actor is session-enabled, and {} otherwise.  The
\* BookKeepingData constructor may reject an output that is no mapping.
BuildRecord ==
    /\ pc = "build"
    /\ IF Truthy(bookkeeping_data)
       THEN /\ pc' = "save"
            /\ UNCHANGED << bookkeeping_data, hist >>
       ELSE \E ret \in IF _session_enabled /\ kind = "stub" THEN PersistVals ELSE { EmptyMap },
               hook_raises \in IF _session_enabled /\ kind = "stub" THEN BOOLEAN ELSE { FALSE },
               rejected \in IF output_dict.kind = "other" THEN BOOLEAN ELSE { FALSE } :
              IF hook_raises
              THEN /\ Propagate(hist)
                   /\ UNCHANGED bookkeeping_data
              ELSE LET h == IF _session_enabled
                            THEN [hist EXCEPT !.persist = Append(@, ret)]
                            ELSE hist
                   IN
                   IF rejected
                   THEN /\ Propagate(h)
                        /\ UNCHANGED bookkeeping_data
                   ELSE /\ bookkeeping_data' = DefaultRecord(ret)
                        /\ hist' = h
                        /\ pc' = "save"
    /\ UNCHANGED << lookups, params, _input, _config, message, output, browser_response,
                    stream, store >>

\* variant of AttachAndSave: the record goes to bookkeep as it was built
AttachAndSave_Skipped ==
    /\ pc = "save"
    /\ pc' = "bookkeep"
    /\ UNCHANGED << lookups, params, _input, _config, message, output, bookkeeping_data,
                    browser_response, stream, store, hist >>

\* lines 385-389: usage data is attached and the record's session_data saved;
\* an overriding usage_data() may raise, and the session store may fail
AttachAndSave ==
    /\ pc = "save"
    /\ \E usage_raises \in IF kind = "stub" THEN BOOLEAN ELSE { FALSE },
          saved \in BOOLEAN :
         IF usage_raises
         THEN /\ Propagate(hist)
              /\ UNCHANGED << bookkeeping_data, store >>
         ELSE LET rec == [bookkeeping_data EXCEPT !.f.usage_data = usage_data]
                  h   == [hist EXCEPT !.saves = Append(@, rec.f.session_data)]
              IN
              /\ bookkeeping_data' = rec
              /\ IF saved
                 THEN /\ store' = rec.f.session_data
                      /\ hist' = h
                      /\ pc' = "bookkeep"
                 ELSE /\ Propagate([h EXCEPT !.save_failed = TRUE])
                      /\ UNCHANGED store
    /\ UNCHANGED << lookups, params, _input, _config, message, output, browser_response,
                    stream >>

\* variant of Bookkeep: the stream is finalized once the record is emitted
Bookkeep_ThenFinalize ==
    /\ pc = "bookkeep"
    /\ stream' = stream \o << Event("bookkeep", bookkeeping_data),
                              Event("finalize", output) >>
    /\ pc' = "stop"
    /\ UNCHANGED << lookups, params, _input, _config, message, output, bookkeeping_data,
                    browser_response, store, hist >>

\* line 391
Bookkeep ==
    /\ pc = "bookkeep"
    /\ stream' = Append(stream, Event("bookkeep", bookkeeping_data))
    /\ pc' = "stop"
    /\ UNCHANGED << lookups, params, _input, _config, message, output, bookkeeping_data,
                    browser_response, store, hist >>

\* variant of Stop: the output of the call is written to the stream once
\* more before input() returns
Stop_WritesOutput ==
    /\ pc = "stop"
    /\ hist' = [hist EXCEPT !.on_stop = IF _is_tool THEN @ + 1 ELSE @,
                            !.result = "returned"]
    /\ stream' = Append(stream, Event("write", output))
    /\ pc' = "idle"
    /\ UNCHANGED << lookups, params, _input, _config, message, output, bookkeeping_data,
                    browser_response, store >>

\* lines 393-395: a tool signals the end of the call; input() returns
Stop ==
    /\ pc = "stop"
    /\ hist' = [hist EXCEPT !.on_stop = IF _is_tool THEN @ + 1 ELSE @,
                            !.result = "returned"]
    /\ pc' = "idle"
    /\ UNCHANGED << lookups, params, _input, _config, message, output, bookkeeping_data,
                    browser_response, stream, store >>

---------------------------------------------------------------------------

Next ==
    \/ Construct
    \/ \E m \in Messages : Input(m)
    \/ ProcOpen
    \/ ProcRun
    \/ ProcEmit
    \/ ProcFinalize
    \/ ProcStub
    \/ GetBookkeepingData
    \/ BuildRecord
    \/ AttachAndSave
    \/ Bookkeep
    \/ Stop

Spec == Init /\ [][Next]_vars

\* the instruction lists given as input to the browser processor: every
\* instruction type alone, with and without data and selector, and two lists
\* of several instructions
InstructionLists ==
    { << BrowserInstruction(t, sel, d) >> :
          t \in BrowserInstructionType, sel \in { None, Str("s") },
          d \in { None, Str("d") } }
    \cup { << BrowserInstruction("Click", Str("s"), None),
              BrowserInstruction("Type", Str("s"), Str("")),
              BrowserInstruction("Enter", None, None) >>,
           << BrowserInstruction("Enter", None, None),
              BrowserInstruction("Click", Str("s"), None) >> }

\* construction of a normal-mode actor whose input declares instructions
InitCmd ==
    /\ pc = "new"
    /\ _is_tool = FALSE
    /\ _input_fields = 0
    /\ _session_enabled = FALSE
    /\ kind \in { "browser", "stub" }
    /\ \E l \in IF kind = "browser" THEN InstructionLists ELSE { << >> } :
          _input_template = Model([url |-> "u0", instructions |-> l])
    /\ \E sv \in BOOLEAN :
          _config_template = Model([connection_id |-> "", stream_video |-> sv])
    /\ _input = _input_template
    /\ _config = _config_template
    /\ message = NoneMsg
    /\ output = None
    /\ bookkeeping_data = None
    /\ browser_response = None
    /\ stream = << >>
    /\ store = EmptyMap
    /\ hist = NoCalls(store)
    /\ NoLookups

\* the same actor, given instruction lists
SpecCmd == InitCmd /\ [][Next]_vars

---------------------------------------------------------------------------
(* get_provider_config, memoized with functools.cache (lines 257-270) *)

\* the state of the actor of input(), which the lookups leave alone
invocation == << pc, params, _input, _config, message, output,
                 bookkeeping_data, browser_response, stream, store, hist >>

\* an actor object is created
NewActor(a) ==
    /\ actors[a] = "unborn"
    /\ actors' = [actors EXCEPT ![a] = "alive"]
    /\ UNCHANGED << invocation, cache, resolver_calls, first, last >>

\* the key functools.cache makes of a call: the positional arguments, self
\* first, then the keyword arguments as they were passed
make_key(a, call) == [self |-> a, args |-> call.args, kwds |-> call.kwds]

\* a.get_provider_config(...): the entry of the key is returned when the
\* table has one; otherwise get_matched_provider_config is called and its
\* result entered in the table under the key
get_provider_config(a, call) ==
    /\ actors[a] = "alive"
    /\ LET key == make_key(a, call)
           m   == model_slug(call)
       IN
       IF \E e \in cache : e.key = key
       THEN LET e == CHOOSE e \in cache : e.key = key IN
            /\ last' = [self |-> a, model_slug |-> m, value |-> e.value,
                        owner |-> e.key.self]
            /\ UNCHANGED << cache, resolver_calls, first >>
       ELSE \E v \in ProviderConfigs :
              /\ cache' = cache \cup { [key |-> key, value |-> v] }
              /\ resolver_calls' = [resolver_calls EXCEPT ![a][m] = @ + 1]
              /\ first' = [first EXCEPT ![a][m] = IF @ = "none" THEN v ELSE @]
              /\ last' = [self |-> a, model_slug |-> m, value |-> v, owner |-> a]
    /\ UNCHANGED << invocation, actors >>

\* the actor is stopped and its owner drops it; the table of functools.cache
\* belongs to the function, not to the actor, and keeps its entries
ReleaseActor(a) ==
    /\ actors[a] = "alive"
    /\ actors' = [actors EXCEPT ![a] = "released"]
    /\ UNCHANGED << invocation, cache, resolver_calls, first, last >>

\* the process before any actor is created; no input() call is made
InitCache ==
    /\ pc = "lookups"
    /\ _is_tool = FALSE
    /\ _input_fields = 0
    /\ _session_enabled = FALSE
    /\ kind = "stub"
    /\ _input_template = Model([url |-> "u0", instructions |-> << >>])
    /\ _config_template = Model([connection_id |-> "", stream_video |-> FALSE])
    /\ _input = _input_template
    /\ _config = _config_template
    /\ message = NoneMsg
    /\ output = None
    /\ bookkeeping_data = None
    /\ browser_response = None
    /\ stream = << >>
    /\ store = EmptyMap
    /\ hist = NoCalls(store)
    /\ NoLookups

NextCache ==
    \/ \E a \in Actors : NewActor(a)
    \/ \E a \in Actors, call \in Calls : get_provider_config(a, call)
    \/ \E a \in Actors : ReleaseActor(a)

SpecCache == InitCache /\ [][NextCache]_vars

---------------------------------------------------------------------------
(* Properties *)

\* an input() call has ended: it returned, or an exception left it
Finished == pc = "idle" /\ hist.result \in { "returned", "raised" }

\* the records given to bookkeep in this invocation
Bookkept == { stream[i].v : i \in Positions("bookkeep") }

\* the payload of section 4.4 for an exception with message m
Payload400(m) ==
    [kind |-> "dict",
     f |-> [errors |-> << m >>, raw_response |-> [text |-> m, status_code |-> 400]]]

\* C1: every input() call, whatever the mode and whether resolution and
\* execution succeed or raise, ends with bookkeep called exactly once.
C1_ExactlyOneBookkeep ==
    Finished => Cardinality(Positions("bookkeep")) = 1

\* C2 as stated: when resolution or process() raises with message m, every
\* bookkeeping record of the invocation carries the payload of m as its
\* output, and the error is on the stream.
C2_RecordCarriesPayload ==
    hist.caught # << >> =>
        /\ \E j \in Positions("error") : stream[j].v = hist.caught[1].m
        /\ \A r \in Bookkept : r.f.output = Payload400(hist.caught[1].m)

\* C2 amended: the error is always signalled, and the record carries the
\* payload when it is the default record built by input(); a record supplied
\* by get_bookkeeping_data is emitted with the output the processor gave it.
C2_DefaultRecordCarriesPayload ==
    hist.caught # << >> =>
        /\ \E j \in Positions("error") : stream[j].v = hist.caught[1].m
        /\ output = Payload400(hist.caught[1].m)
        /\ ~hist.supplied =>
              \A r \in Bookkept : r.f.output = Payload400(hist.caught[1].m)

\* C2 witness: process() raised and the default record was emitted
C2_Witness ==
    /\ hist.caught # << >>
    /\ hist.caught[1].at = "process"
    /\ ~hist.supplied
    /\ Bookkept # {}

\* C3: no failure at any step of input() reaches the caller of input().
C3_NothingPropagates ==
    hist.result # "raised"

\* C4: in an invocation where process() raises the error signal is on the
\* stream, and no error signal follows a finalize of the same invocation.
C4_ErrorNeverAfterFinalize ==
    /\ \A i \in Positions("finalize"), j \in Positions("error") : j < i
    /\ (hist.caught # << >> /\ hist.caught[1].at = "process") =>
          Positions("error") # {}

\* C4 witness: the browser processor wrote the session handle, then failed,
\* and the error was signalled
C4_Witness ==
    /\ kind = "browser"
    /\ hist.caught # << >>
    /\ hist.caught[1].at = "process"
    /\ Positions("write") # {}
    /\ Positions("error") # {}
    /\ Finished

\* C5 as stated: the session store is saved to at most once per invocation,
\* and what is saved is what session_data_to_persist() returned in that
\* invocation, also when get_bookkeeping_data supplies the record.
C5_SavesHookResult ==
    /\ Len(hist.saves) <= 1
    /\ hist.saves # << >> =>
          /\ hist.persist # << >>
          /\ hist.saves[1] = hist.persist[1]

\* C5 amended: the session store is saved to at most once per invocation, and
\* what is saved is the session_data of the invocation's bookkeeping record:
\* for the default record of a session-enabled actor the mapping returned by
\* session_data_to_persist(), which is called once; for the default record of
\* an actor that is not session-enabled the empty mapping; for a record
\* supplied by get_bookkeeping_data that record's own session_data, the hook
\* not being called.
C5_SavesRecordSessionData ==
    /\ Len(hist.saves) <= 1
    /\ Len(hist.persist) <= 1
    /\ hist.saves # << >> =>
          /\ hist.saves[1] = bookkeeping_data.f.session_data
          /\ \A r \in Bookkept : r.f.session_data = hist.saves[1]
          /\ IF hist.supplied
             THEN hist.persist = << >> /\ hist.saves[1] = [k |-> "custom"]
             ELSE IF _session_enabled
             THEN hist.persist # << >> /\ hist.saves[1] = hist.persist[1]
             ELSE hist.persist = << >> /\ hist.saves[1] = EmptyMap

\* C5 witness: an overriding session_data_to_persist() returned a mapping and
\* the store now holds it
C5_Witness ==
    /\ hist.persist = << [k |-> "new"] >>
    /\ hist.saves = << [k |-> "new"] >>
    /\ store = [k |-> "new"]
    /\ Finished

\* C6: an actor that is not session-enabled never loads from the session
\* store and never saves to it, and the mapping stored for its slot stays
\* what it was before the actor was constructed.
C6_DisabledLeavesStoreAlone ==
    ~_session_enabled =>
        /\ hist.loads = 0
        /\ hist.saves = << >>
        /\ store = hist.store0

\* C7: when the session save fails, bookkeep is still called with the record
\* built for the invocation.
C7_BookkeepAfterFailedSave ==
    (Finished /\ hist.save_failed) => bookkeeping_data \in Bookkept

\* C8: when process() returns a value that is neither a structured output
\* record nor a mapping, the error is signalled and the bookkeeping record
\* carries an error payload, not the returned value.
C8_BadReturnFails ==
    (hist.returned # << >> /\ hist.returned[1].kind \notin { "model", "dict" }) =>
        /\ Positions("error") # {}
        /\ \A r \in Bookkept :
              r.f.output.kind = "dict" /\ "errors" \in DOMAIN r.f.output.f

\* C9: in normal mode a call with None or an empty message runs process()
\* with the resolved input and config equal to the templates, without any
\* call of the hydrator, whatever the previous invocation left behind.
C9_NoMessageUsesTemplates ==
    (hist.calls >= 1 /\ ~_is_tool /\ (message.none \/ DOMAIN message.kw = {})) =>
        /\ _input = _input_template
        /\ _config = _config_template
        /\ hist.hydrations = 0
        /\ hist.caught # << >> => hist.caught[1].at # "resolve"
        /\ IF pc = "process" THEN hist.executes = 0 ELSE hist.executes = 1

\* C9 witness: the previous invocation left a resolved input other than the
\* template, and process() has run in a call without a message
C9_Witness ==
    /\ ~_is_tool
    /\ message.none
    /\ hist.calls = 2
    /\ hist.entry.input # _input_template
    /\ hist.entry.config # _config_template
    /\ hist.executes = 1

\* the message of a tool call validates against the input schema and the
\* config template renders
VerbatimResolves ==
    /\ ~message.none
    /\ {"url", "instructions"} \subseteq DOMAIN message.kw
    /\ _config_template.f.connection_id # "{%bad"

\* C10 as stated: in tool mode without declared input fields every call
\* sets the resolved input to the message's keys and values and then runs
\* process() exactly once.
C10_VerbatimAlwaysExecutes ==
    (hist.calls >= 1 /\ pc # "process" /\ _is_tool /\ _input_fields = 0) =>
        /\ hist.executes = 1
        /\ ~message.none
        /\ \A k \in DOMAIN _input.f :
              k \in DOMAIN message.kw /\ _input.f[k] = message.kw[k]

\* C10 amended: in tool mode without declared input fields, when the message
\* validates against the input schema and the config template renders, the
\* resolved input holds the message's values for the schema's fields (none
\* from the input template), the config is the config template hydrated from
\* the message (the only call of the hydrator) and process() runs exactly
\* once; otherwise process() is not called and the failure path is taken.
C10_VerbatimInput ==
    (hist.calls >= 1 /\ _is_tool /\ _input_fields = 0) =>
        IF VerbatimResolves
        THEN /\ _input.f = [url |-> message.kw.url,
                            instructions |-> message.kw.instructions]
             /\ _config = hydrate_input(_config_template, message).val
             /\ hist.hydrations = 1
             /\ IF pc = "process" THEN hist.executes = 0 ELSE hist.executes = 1
        ELSE /\ hist.executes = 0
             /\ hist.caught # << >>
             /\ hist.caught[1].at = "resolve"

\* C10 witness: a tool call whose message differs from the input template
\* and carries a key for the config template has run process() once
C10_Witness ==
    /\ _is_tool
    /\ _input_fields = 0
    /\ hist.calls >= 1
    /\ VerbatimResolves
    /\ _input.f.url # _input_template.f.url
    /\ _config # _config_template
    /\ hist.executes = 1
    /\ Finished

\* the input template rendered against the message of the call
RenderedUrl ==
    IF _input_template.f.url = "{{q}}"
    THEN IF "q" \in DOMAIN message.kw THEN message.kw["q"] ELSE ""
    ELSE _input_template.f.url

\* a record matching the input schema of the processor
MatchesInputSchema(v) ==
    /\ v.kind = "model"
    /\ DOMAIN v.f = { "url", "instructions" }
    /\ kind = "stub" => v.f.url # ""

\* C11: in tool mode with declared input fields the input template is
\* hydrated from the message and the result validated against the input
\* schema before process(): process() runs, once, only with a resolved input
\* that matches the schema and holds the rendered template; when hydration or
\* validation raises, process() is not called and the failure path is taken.
C11_ValidatedBeforeExecute ==
    (hist.calls >= 1 /\ _is_tool /\ _input_fields > 0) =>
        IF hist.caught # << >> /\ hist.caught[1].at = "resolve"
        THEN /\ hist.executes = 0
             /\ Positions("error") # {}
             /\ output.kind = "dict" /\ "errors" \in DOMAIN output.f
        ELSE /\ MatchesInputSchema(_input)
             /\ _input.f.url = RenderedUrl
             /\ _input.f.instructions = _input_template.f.instructions
             /\ IF pc = "process" THEN hist.executes = 0 ELSE hist.executes = 1

\* C11 witness: the hydrated input failed validation, process() did not run
\* and the invocation ended on the failure path
C11_Witness ==
    /\ _is_tool
    /\ _input_fields > 0
    /\ hist.caught # << >>
    /\ hist.caught[1].m = "validation: string too short"
    /\ hist.executes = 0
    /\ Bookkept # {}
    /\ Finished

\* C12: within one invocation every write to the output stream comes
\* strictly before the bookkeep call; nothing is written after it.
C12_WritesBeforeBookkeep ==
    \A w \in Positions("write") : \A b \in Positions("bookkeep") : w < b

\* C12 witness: the browser processor wrote its session handle and its final
\* output, and the record of the invocation was bookkept
C12_Witness ==
    /\ kind = "browser"
    /\ Cardinality(Positions("write")) = 2
    /\ Positions("bookkeep") # {}
    /\ Finished

\* C13: no step of construction or of an input() call changes the input
\* template or the config template: after any sequence of calls they hold
\* the values given at construction, whatever the resolved forms became.
C13_TemplatesImmutable ==
    [][/\ _input_template' = _input_template
       /\ _config_template' = _config_template]_vars

\* C13 witness: two calls have ended and both resolved forms differ from
\* their templates
C13_Witness ==
    /\ hist.calls = 2
    /\ Finished
    /\ _input # _input_template
    /\ _config # _config_template

\* the resolved input and config a call with this message has on an actor
\* with these templates, when its resolution passes
ExpectedInput ==
    [kind |-> "model",
     f |-> [url |-> IF _is_tool /\ _input_fields = 0 THEN message.kw.url
                    ELSE IF ~_is_tool /\ ~MsgTruthy(message)
                    THEN _input_template.f.url
                    ELSE RenderedUrl,
            instructions |-> IF _is_tool /\ _input_fields = 0
                             THEN message.kw.instructions
                             ELSE _input_template.f.instructions]]

ExpectedConfig ==
    [kind |-> "model",
     f |-> [connection_id |->
               IF _config_template.f.connection_id = "{{q}}"
                  /\ (_is_tool \/ MsgTruthy(message))
               THEN IF "q" \in DOMAIN message.kw THEN message.kw["q"] ELSE ""
               ELSE _config_template.f.connection_id,
            stream_video |-> _config_template.f.stream_video]]

\* the output field of the default record for what process() returned
ExpectedOutput(v) ==
    CASE v.kind = "model" -> [kind |-> "dict", f |-> v.f]
      [] v.kind = "none"  -> [kind |-> "dict", f |-> EmptyMap]
      [] OTHER            -> v

\* C14: an exception raised by process() is turned into the error payload
\* and the call goes on to its bookkeeping; and in the call that follows a
\* call whose process() raised, the resolved forms are those of its own
\* message, process() runs once, and a call that returns has bookkept one
\* record, the default one holding these resolved forms and the output of
\* this call.
C14_NextCallUnaffected ==
    /\ (hist.caught # << >> /\ hist.caught[1].at = "process") =>
          /\ pc \in { "bookkeeping", "build", "save", "bookkeep", "stop", "idle" }
          /\ output = Payload400(hist.caught[1].m)
    /\ (hist.after_failure /\ hist.assigned = 2) =>
          /\ _input = ExpectedInput
          /\ _config = ExpectedConfig
          /\ IF pc = "process" THEN hist.executes = 0 ELSE hist.executes = 1
    /\ (hist.after_failure /\ Finished /\ hist.result = "returned") =>
          /\ Cardinality(Positions("bookkeep")) = 1
          /\ \A r \in Bookkept :
                ~hist.supplied =>
                    /\ r.f.input = [kind |-> "dict", f |-> _input.f]
                    /\ r.f.config = [kind |-> "dict", f |-> _config.f]
                    /\ r.f.output = IF hist.caught # << >>
                                    THEN Payload400(hist.caught[1].m)
                                    ELSE ExpectedOutput(hist.returned[1])

\* C14 witness: the call after one whose process() raised resolved its
\* message, ran process() without failure and bookkept the default record
C14_Witness ==
    /\ hist.after_failure
    /\ Finished
    /\ hist.result = "returned"
    /\ hist.caught = << >>
    /\ hist.executes = 1
    /\ ~hist.supplied
    /\ Bookkept # {}

\* C15: in tool mode every input() call that has ended, returned or failed,
\* has signalled on_stop exactly once, and on_stop is signalled only after
\* the bookkeep call; in normal mode on_stop is never signalled.
C15_OneOnStopPerToolCall ==
    /\ hist.on_stop > 0 => Positions("bookkeep") # {}
    /\ ~_is_tool => hist.on_stop = 0
    /\ (_is_tool /\ Finished) => hist.on_stop = 1

FinalOutputs ==
    { stream[i].v : i \in { j \in Positions("write") :
                              "content" \in DOMAIN stream[j].v.f } }

\* C17: a final output written by the browser processor holds the reference
\* of an uploaded asset as its screenshot when the response carried one, and
\* as the data of each downloaded file; it holds neither bytes nor a data
\* URI.  When an upload failed no final output is written and the invocation
\* ends with the error payload.
C17_OutputHoldsAssetRefs ==
    kind = "browser" =>
        /\ \A o \in FinalOutputs :
              LET c == o.f.content
                  r == browser_response.f
              IN
              /\ IF r.screenshot # ""
                 THEN c.screenshot = [kind |-> "objref", id |-> "asset"]
                 ELSE c.screenshot = [kind |-> "none"]
              /\ Len(c.downloads) = Len(r.downloads)
              /\ \A i \in 1..Len(c.downloads) :
                    /\ c.downloads[i].file.data = [kind |-> "objref", id |-> "asset"]
                    /\ c.downloads[i].file.name = r.downloads[i].file.name
        /\ \A i \in 1..Len(hist.caught) :
              hist.caught[i].m = "attribute error: 'str' object has no attribute 'objref'"
              => /\ FinalOutputs = {}
                 /\ output = Payload400(hist.caught[i].m)

\* C17 witness: the response carried a screenshot and two files, and the
\* final output written holds a reference for each
C17_Witness ==
    /\ kind = "browser"
    /\ \E o \in FinalOutputs :
          /\ o.f.content.screenshot.kind = "objref"
          /\ Len(o.f.content.downloads) = 2
    /\ Finished

\* C18: within one input() call process() is invoked at most once: not at
\* all when hydration or validation raised, exactly once when they passed,
\* and not again after it raised.
C18_ExecuteAtMostOnce ==
    hist.calls >= 1 =>
        /\ hist.executes <= 1
        /\ IF hist.caught # << >> /\ hist.caught[1].at = "resolve"
           THEN hist.executes = 0
           ELSE pc # "process" => hist.executes = 1
        /\ Len(hist.caught) <= 1

\* C18 witness: process() raised, was not called again, and the call ended
C18_Witness ==
    /\ hist.caught # << >>
    /\ hist.caught[1].at = "process"
    /\ hist.executes = 1
    /\ Finished

\* C19: the default record bookkept for an invocation holds the resolved
\* input and config of the actor, and neither of them is a value that an
\* earlier invocation assigned and this invocation did not replace, also when
\* the resolution of this invocation raised partway.
C19_RecordOfThisInvocation ==
    \A r \in Bookkept :
        ~hist.supplied =>
            /\ r.f.input = [kind |-> "dict", f |-> _input.f]
            /\ r.f.config = [kind |-> "dict", f |-> _config.f]
            /\ hist.stale_input => hist.assigned >= 1
            /\ hist.stale_config => hist.assigned = 2

\* C20: the record given to bookkeep is the record supplied by
\* get_bookkeeping_data when there is one, and otherwise the default record
\* built from the resolved input and config, the output and the session
\* delta; either way it carries the usage data, and its session_data has
\* been saved to the store, before bookkeep is called with it.
C20_RecordUsageSaveThenBookkeep ==
    \A r \in Bookkept :
        /\ "credits" \in DOMAIN r.f.usage_data
        /\ r.f.usage_data.credits = 1000
        /\ hist.saves = << r.f.session_data >>
        /\ ~hist.save_failed
        /\ store = r.f.session_data
        /\ IF hist.supplied
           THEN /\ r.f.input = [kind |-> "dict", f |-> [url |-> "custom"]]
                /\ r.f.output = [kind |-> "dict", f |-> [text |-> "custom"]]
                /\ r.f.session_data = [k |-> "custom"]
                /\ r.f.disable_history
           ELSE /\ r.f.input = [kind |-> "dict", f |-> _input.f]
                /\ r.f.config = [kind |-> "dict", f |-> _config.f]
                /\ r.f.output = ExpectedOutput(output)
                /\ r.f.session_data = IF _session_enabled
                                      THEN hist.persist[1] ELSE EmptyMap
                /\ ~r.f.disable_history

\* C20 witness: a record supplied by get_bookkeeping_data was bookkept with
\* usage data attached after its session_data was saved
C20_Witness ==
    /\ hist.supplied
    /\ Bookkept # {}
    /\ store = [k |-> "custom"]
    /\ Finished

\* C21: once the constructor has run, the session data has been loaded
\* once and the actor exists; a session-enabled actor has had
\* process_session_data called once, with the mapping loaded, the empty
\* mapping when the load returned nothing; an actor that is not
\* session-enabled has not had it called.
C21_LoadNonFatal ==
    pc # "new" =>
        /\ hist.loads = 1
        /\ pc # "failed"
        /\ hist.psd = IF _session_enabled THEN << hist.store0 >> ELSE << >>

\* the command type of every instruction type
CommandTypeOf ==
    [Click |-> "CLICK", Type |-> "TYPE", Wait |-> "WAIT", Goto |-> "GOTO",
     Copy |-> "COPY", Scrollx |-> "SCROLL_X", Scrolly |-> "SCROLL_Y",
     Enter |-> "ENTER", Terminate |-> "TERMINATE"]

C23_MemoOwnedByActor ==
    /\ \A a \in Actors : \A m \in ModelSlugs : resolver_calls[a][m] <= 1
    /\ last # None =>
          /\ last.value = first[last.self][last.model_slug]
          /\ last.owner = last.self
    /\ \A e \in cache : actors[e.key.self] = "alive"

=============================================================================
